---- MODULE Spec2Model ----
(***************************************************************************)
(* AMIF: the message broker (src/broker.py), the module base class         *)
(* (src/module_base.py) and the discovery service (src/discovery.py).      *)
(*                                                                         *)
(* Python values are records [t |-> type name, r |-> text of str(value)],  *)
(* so that a value and its string form are different values.               *)
(***************************************************************************)
EXTENDS Integers, Sequences, FiniteSets, TLC

VARIABLES
    backendUp,      \* Broker.redis_instance: TRUE while the Redis server is reachable
    store,          \* the Redis key space: key -> stored bytes, or None
    lastCall,       \* the last call of a Broker method and how it ended
    pubCalls,       \* <<topic, message>> -> number of calls of Broker.publish
    attempts,       \* <<topic, payload>> -> number of redis publish commands issued
    accepted,       \* <<topic, payload>> -> number of redis publish commands that succeeded
    subscribeCalls, \* the topics Broker.subscribe has been called for
    due,            \* topic -> messages the backend accepted after subscribe(topic)
    handlerCalls,   \* topic -> number of handler invocations
    name,           \* ModuleBase.name
    config,         \* ModuleBase.config
    status,         \* ModuleBase.status
    broker,         \* ModuleBase.broker: "None" or "Broker"
    modCall,        \* the last call of a ModuleBase method and how it ended
    running,        \* DiscoveryService: started
    now,            \* DiscoveryService: the clock the timeouts are measured against
    table,          \* DiscoveryService: the Membership Table, id -> ModuleRecord or NoRecord
    lastMerge       \* DiscoveryService: the last operation, the record states before it
                    \* and the ids its digest was stale or fresh about

brokerVars == <<backendUp, store, lastCall, pubCalls, attempts, accepted,
                subscribeCalls, due, handlerCalls>>
moduleVars == <<name, config, status, broker, modCall>>
discoveryVars == <<running, now, table, lastMerge>>
vars == <<brokerVars, moduleVars, discoveryVars>>

----------------------------------------------------------------------------
(* Bounds *)

MaxPublishCalls == 3
MaxTime == 3
MaxInc == 1

----------------------------------------------------------------------------
(* Python values *)

PyNone  == [t |-> "NoneType", r |-> "None"]
PyTrue  == [t |-> "bool", r |-> "True"]
PyFalse == [t |-> "bool", r |-> "False"]
PyString(s) == [t |-> "str", r |-> s]
PyInt(s)    == [t |-> "int", r |-> s]
PyDict(s)   == [t |-> "dict", r |-> s]

\* str(v): the text of v, as a str
Str(v) == [t |-> "str", r |-> v.r]

Topics   == {"t", "u"}
Messages == {PyDict("{'a': 1}"), PyDict("{'a': 2}")}
Payloads == {Str(m) : m \in Messages}
Keys     == {"k", "j"}
Values   == {PyString("v"), PyString(""), PyInt("5"), PyDict("{'a': 1}")}

NoCall == [op |-> "none", target |-> "", arg |-> PyNone, backend |-> "none",
           ret |-> PyNone, raised |-> FALSE, before |-> PyNone]

----------------------------------------------------------------------------
(* The Redis client held by the Broker *)

\* what a Redis command does on the connection: it completes or raises ConnectionError
RedisConnection == IF backendUp THEN "ok" ELSE "ConnectionError"

\* the client encodes str and int arguments as their text and refuses a dict (DataError)
RedisEncodable(value) == value.t \in {"str", "int"}

RedisEncode(value) == [t |-> "bytes", r |-> value.r]

\* decode_responses=True: the bytes stored come back as a str; a missing key as None
RedisDecode(stored) == IF stored = PyNone THEN PyNone ELSE [t |-> "str", r |-> stored.r]

RedisSetOutcome(value) ==
    IF ~backendUp THEN "ConnectionError"
    ELSE IF ~RedisEncodable(value) THEN "DataError"
    ELSE "ok"

RedisGet(key) == RedisDecode(store[key])

----------------------------------------------------------------------------
(* Broker *)

Total(f) ==
    LET RECURSIVE Sum(_)
        Sum(S) == IF S = {} THEN 0
                  ELSE LET x == CHOOSE y \in S : TRUE IN f[x] + Sum(S \ {x})
    IN Sum(DOMAIN f)

\* a variant of Broker_publish that tries the backend a second time when the first try fails
Broker_publish_retry(topic, message) ==
    LET payload == Str(message)
        outcome == RedisConnection
    IN /\ pubCalls' = [pubCalls EXCEPT ![<<topic, message>>] = @ + 1]
       /\ attempts' = [attempts EXCEPT ![<<topic, payload>>] =
                           @ + (IF outcome = "ok" THEN 1 ELSE 2)]
       /\ IF outcome = "ok"
          THEN /\ accepted' = [accepted EXCEPT ![<<topic, payload>>] = @ + 1]
               /\ due' = [due EXCEPT ![topic] =
                             IF topic \in subscribeCalls THEN @ + 1 ELSE @]
          ELSE UNCHANGED <<accepted, due>>
       /\ lastCall' = [op |-> "publish", target |-> topic, arg |-> message,
                       backend |-> outcome,
                       ret |-> IF outcome = "ok" THEN PyTrue ELSE PyFalse,
                       raised |-> FALSE, before |-> PyNone]
       /\ UNCHANGED <<backendUp, store, subscribeCalls, handlerCalls>>

\* a variant of Broker_publish without the except clause: the backend error reaches the caller
Broker_publish_raises(topic, message) ==
    LET payload == Str(message)
        outcome == RedisConnection
    IN /\ pubCalls' = [pubCalls EXCEPT ![<<topic, message>>] = @ + 1]
       /\ attempts' = [attempts EXCEPT ![<<topic, payload>>] = @ + 1]
       /\ IF outcome = "ok"
          THEN /\ accepted' = [accepted EXCEPT ![<<topic, payload>>] = @ + 1]
               /\ due' = [due EXCEPT ![topic] =
                             IF topic \in subscribeCalls THEN @ + 1 ELSE @]
          ELSE UNCHANGED <<accepted, due>>
       /\ lastCall' = [op |-> "publish", target |-> topic, arg |-> message,
                       backend |-> outcome,
                       ret |-> IF outcome = "ok" THEN PyTrue ELSE PyNone,
                       raised |-> outcome # "ok", before |-> PyNone]
       /\ UNCHANGED <<backendUp, store, subscribeCalls, handlerCalls>>

\* Broker.publish: one redis publish of str(message) under topic; True, or False on any exception
Broker_publish(topic, message) ==
    LET payload == Str(message)
        outcome == RedisConnection
    IN /\ pubCalls' = [pubCalls EXCEPT ![<<topic, message>>] = @ + 1]
       /\ attempts' = [attempts EXCEPT ![<<topic, payload>>] = @ + 1]
       /\ IF outcome = "ok"
          THEN /\ accepted' = [accepted EXCEPT ![<<topic, payload>>] = @ + 1]
               /\ due' = [due EXCEPT ![topic] =
                             IF topic \in subscribeCalls THEN @ + 1 ELSE @]
          ELSE UNCHANGED <<accepted, due>>
       /\ lastCall' = [op |-> "publish", target |-> topic, arg |-> message,
                       backend |-> outcome,
                       ret |-> IF outcome = "ok" THEN PyTrue ELSE PyFalse,
                       raised |-> FALSE, before |-> PyNone]
       /\ UNCHANGED <<backendUp, store, subscribeCalls, handlerCalls>>

\* Broker.subscribe: the body is "pass"; nothing is registered and nothing listens
Broker_subscribe(topic) ==
    /\ subscribeCalls' = subscribeCalls \cup {topic}
    /\ lastCall' = [op |-> "subscribe", target |-> topic, arg |-> PyNone,
                    backend |-> "none", ret |-> PyNone, raised |-> FALSE,
                    before |-> PyNone]
    /\ UNCHANGED <<backendUp, store, pubCalls, attempts, accepted, due, handlerCalls>>

\* Broker.get: the redis get, with no try around it
Broker_get(key) ==
    LET outcome == RedisConnection
    IN /\ lastCall' = [op |-> "get", target |-> key, arg |-> PyNone,
                       backend |-> outcome,
                       ret |-> IF outcome = "ok" THEN RedisGet(key) ELSE PyNone,
                       raised |-> outcome # "ok", before |-> store[key]]
       /\ UNCHANGED <<backendUp, store, pubCalls, attempts, accepted,
                      subscribeCalls, due, handlerCalls>>

\* a variant of Broker_set whose write reaches the store although the call reports a failure
Broker_set_dirty(key, value) ==
    LET outcome == RedisSetOutcome(value)
    IN /\ store' = IF RedisEncodable(value)
                   THEN [store EXCEPT ![key] = RedisEncode(value)] ELSE store
       /\ lastCall' = [op |-> "set", target |-> key, arg |-> value,
                       backend |-> outcome,
                       ret |-> IF outcome = "ok" THEN PyTrue ELSE PyFalse,
                       raised |-> FALSE, before |-> store[key]]
       /\ UNCHANGED <<backendUp, pubCalls, attempts, accepted,
                      subscribeCalls, due, handlerCalls>>

\* Broker.set: the redis set; True, or False on any exception
Broker_set(key, value) ==
    LET outcome == RedisSetOutcome(value)
    IN /\ store' = IF outcome = "ok"
                   THEN [store EXCEPT ![key] = RedisEncode(value)] ELSE store
       /\ lastCall' = [op |-> "set", target |-> key, arg |-> value,
                       backend |-> outcome,
                       ret |-> IF outcome = "ok" THEN PyTrue ELSE PyFalse,
                       raised |-> FALSE, before |-> store[key]]
       /\ UNCHANGED <<backendUp, pubCalls, attempts, accepted,
                      subscribeCalls, due, handlerCalls>>

----------------------------------------------------------------------------
(* ModuleBase *)

Names   == {"m1", "m2"}
Configs == {[fanout |-> 2], [fanout |-> 3]}
Errors  == {"ValueError", "RuntimeError"}
StatusArgs == {"INITIALIZING", "OPERATIONAL", "DEGRADED", "STOPPED"}

NoModCall == [op |-> "none", arg |-> "", raised |-> FALSE, brokerCalled |-> FALSE]

\* ModuleBase.set_status: stores whatever status it is given
ModuleBase_set_status(new) ==
    /\ status' = new
    /\ UNCHANGED <<name, config, broker>>

\* a variant of ModuleBase_handle_error that drops the broker handle of the failed module
ModuleBase_handle_error_detach(error) ==
    /\ status' = "DEGRADED"
    /\ broker' = "None"
    /\ UNCHANGED <<name, config>>
    /\ modCall' = [op |-> "handle_error", arg |-> error, raised |-> FALSE,
                   brokerCalled |-> FALSE]
    /\ UNCHANGED brokerVars

\* ModuleBase.handle_error: logs the error and calls set_status("DEGRADED")
ModuleBase_handle_error(error) ==
    /\ ModuleBase_set_status("DEGRADED")
    /\ modCall' = [op |-> "handle_error", arg |-> error, raised |-> FALSE,
                   brokerCalled |-> FALSE]
    /\ UNCHANGED brokerVars

\* a variant of ModuleBase_publish that marks the module DEGRADED when the broker returns False
ModuleBase_publish_degrades(topic, data) ==
    /\ IF broker # "None"
       THEN /\ Broker_publish(topic, data)
            /\ modCall' = [op |-> "publish", arg |-> topic, raised |-> lastCall'.raised,
                           brokerCalled |-> TRUE]
            /\ status' = IF lastCall'.ret = PyFalse THEN "DEGRADED" ELSE status
       ELSE /\ UNCHANGED brokerVars
            /\ modCall' = [op |-> "publish", arg |-> topic, raised |-> FALSE,
                           brokerCalled |-> FALSE]
            /\ status' = "DEGRADED"
    /\ UNCHANGED <<name, config, broker>>

\* ModuleBase.publish: hands the message to the broker if there is one, else logs
ModuleBase_publish(topic, data) ==
    /\ IF broker # "None"
       THEN /\ Broker_publish(topic, data)
            /\ modCall' = [op |-> "publish", arg |-> topic, raised |-> lastCall'.raised,
                           brokerCalled |-> TRUE]
       ELSE /\ UNCHANGED brokerVars
            /\ modCall' = [op |-> "publish", arg |-> topic, raised |-> FALSE,
                           brokerCalled |-> FALSE]
    /\ UNCHANGED <<name, config, status, broker>>

\* ModuleBase.on_message: abstract; the base class keeps no state for it
ModuleBase_on_message(sender, message) ==
    /\ modCall' = [op |-> "on_message", arg |-> sender, raised |-> FALSE,
                   brokerCalled |-> FALSE]
    /\ UNCHANGED <<name, config, status, broker>>
    /\ UNCHANGED brokerVars

----------------------------------------------------------------------------
(* Initial state: Broker() and ModuleBase(name, config) constructed *)

InitBroker ==
    /\ backendUp \in BOOLEAN
    /\ store = [k \in Keys |-> PyNone]
    /\ lastCall = NoCall
    /\ pubCalls = [x \in Topics \X Messages |-> 0]
    /\ attempts = [x \in Topics \X Payloads |-> 0]
    /\ accepted = [x \in Topics \X Payloads |-> 0]
    /\ subscribeCalls = {}
    /\ due = [t \in Topics |-> 0]
    /\ handlerCalls = [t \in Topics |-> 0]

InitModule ==
    /\ name \in Names
    /\ config \in Configs
    /\ status = "INITIALIZING"
    /\ broker = "None"
    /\ modCall = NoModCall

----------------------------------------------------------------------------
(* Steps of the broker's callers and of its environment *)

\* the Redis server becomes unreachable
BackendFail ==
    /\ backendUp
    /\ backendUp' = FALSE
    /\ UNCHANGED <<store, lastCall, pubCalls, attempts, accepted, subscribeCalls,
                   due, handlerCalls>>
    /\ UNCHANGED <<moduleVars, discoveryVars>>

\* the Redis server becomes reachable again
BackendRecover ==
    /\ ~backendUp
    /\ backendUp' = TRUE
    /\ UNCHANGED <<store, lastCall, pubCalls, attempts, accepted, subscribeCalls,
                   due, handlerCalls>>
    /\ UNCHANGED <<moduleVars, discoveryVars>>

PublishCall ==
    /\ Total(pubCalls) < MaxPublishCalls
    /\ \E topic \in Topics, message \in Messages : Broker_publish(topic, message)
    /\ UNCHANGED <<moduleVars, discoveryVars>>

SubscribeCall ==
    /\ \E topic \in Topics : Broker_subscribe(topic)
    /\ UNCHANGED <<moduleVars, discoveryVars>>

GetCall ==
    /\ \E key \in Keys : Broker_get(key)
    /\ UNCHANGED <<moduleVars, discoveryVars>>

SetCall ==
    /\ \E key \in Keys, value \in Values : Broker_set(key, value)
    /\ UNCHANGED <<moduleVars, discoveryVars>>

\* module.broker = broker, the assignment ModuleBase.__init__ leaves to its user
AttachBroker ==
    /\ broker = "None"
    /\ broker' = "Broker"
    /\ modCall' = [op |-> "attach", arg |-> "Broker", raised |-> FALSE,
                   brokerCalled |-> FALSE]
    /\ UNCHANGED <<name, config, status>>
    /\ UNCHANGED <<brokerVars, discoveryVars>>

ModulePublishCall ==
    /\ Total(pubCalls) < MaxPublishCalls
    /\ \E topic \in Topics, data \in Messages : ModuleBase_publish(topic, data)
    /\ UNCHANGED discoveryVars

SetStatusCall ==
    /\ \E new \in StatusArgs :
          /\ ModuleBase_set_status(new)
          /\ modCall' = [op |-> "set_status", arg |-> new, raised |-> FALSE,
                         brokerCalled |-> FALSE]
    /\ UNCHANGED <<brokerVars, discoveryVars>>

HandleErrorCall ==
    /\ \E error \in Errors : ModuleBase_handle_error(error)
    /\ UNCHANGED discoveryVars

OnMessageCall ==
    /\ \E sender \in Names, message \in Messages : ModuleBase_on_message(sender, message)
    /\ UNCHANGED discoveryVars

----------------------------------------------------------------------------
(* DiscoveryService and its Membership Table *)

Ids == {"m1", "m2"}
SelfId == "m1"
States == {"ALIVE", "SUSPECT", "DEAD"}

suspect_timeout == 2
dead_timeout == 1
retention == 1

NoRecord == [incarnation |-> -1, state |-> "ABSENT", last_updated |-> 0]

\* a digest entry: (id, incarnation, state); the sender's last_updated takes no part in the merge
Entries == [id : Ids, incarnation : 0..MaxInc, state : States]
\* digests of one entry, snapshots of the peer m2 (itself ALIVE, then what it knows of m1),
\* and digests that repeat an entry
Digests ==
    {<<e>> : e \in Entries}
    \cup {<<e, f>> : e \in {x \in Entries : x.id = "m2" /\ x.state = "ALIVE"},
                     f \in {x \in Entries : x.id = "m1"}}
    \cup {<<e, e>> : e \in {x \in Entries : x.state = "ALIVE"}}

StatesOf(tbl) == [id \in Ids |-> tbl[id].state]

\* the ids a digest mentions with an incarnation below the stored one
StaleIds(tbl, digest) ==
    {id \in Ids : \E i \in 1..Len(digest) :
        /\ digest[i].id = id
        /\ tbl[id] # NoRecord
        /\ digest[i].incarnation < tbl[id].incarnation}

\* the ids a digest mentions as ALIVE with an incarnation above the stored one
RefreshIds(tbl, digest) ==
    {id \in Ids : \E i \in 1..Len(digest) :
        /\ digest[i].id = id
        /\ digest[i].state = "ALIVE"
        /\ tbl[id] # NoRecord
        /\ digest[i].incarnation > tbl[id].incarnation}

NoMerge == [op |-> "none", stale |-> {}, refresh |-> {}, was |-> [id \in Ids |-> "ABSENT"]]

\* state-rank: ALIVE < SUSPECT < DEAD
Rank(state) == CASE state = "ALIVE" -> 0 [] state = "SUSPECT" -> 1 [] state = "DEAD" -> 2

\* a variant of Supersedes that compares the state-rank before the incarnation
Supersedes_rank_first(e, r) ==
    \/ r = NoRecord
    \/ Rank(e.state) > Rank(r.state)
    \/ Rank(e.state) = Rank(r.state) /\ e.incarnation > r.incarnation

\* the precedence rule: the higher (incarnation, state-rank) pair is retained
Supersedes(e, r) ==
    \/ r = NoRecord
    \/ e.incarnation > r.incarnation
    \/ e.incarnation = r.incarnation /\ Rank(e.state) > Rank(r.state)

\* a digest is well formed when it mentions each id once, as a table snapshot does
WellFormed(digest) ==
    \A i, j \in 1..Len(digest) : i # j => digest[i].id # digest[j].id

\* merge of one entry at time t: a superseding entry replaces the record and resets its timer
MergeEntry(tbl, e, t) ==
    IF Supersedes(e, tbl[e.id])
    THEN [tbl EXCEPT ![e.id] = [incarnation |-> e.incarnation, state |-> e.state,
                                last_updated |-> t]]
    ELSE tbl

RECURSIVE MergeDigest(_, _, _)
MergeDigest(tbl, digest, t) ==
    IF digest = <<>> THEN tbl
    ELSE MergeDigest(MergeEntry(tbl, Head(digest), t), Tail(digest), t)

\* a variant of Advance that declares a record DEAD once both timeouts have passed
Advance_skip(r, t) ==
    IF r.state = "ALIVE" /\ t - r.last_updated >= suspect_timeout + dead_timeout
    THEN [r EXCEPT !.state = "DEAD", !.last_updated = t]
    ELSE IF r.state = "ALIVE" /\ t - r.last_updated >= suspect_timeout
    THEN [r EXCEPT !.state = "SUSPECT", !.last_updated = t]
    ELSE IF r.state = "SUSPECT" /\ t - r.last_updated >= dead_timeout
    THEN [r EXCEPT !.state = "DEAD", !.last_updated = t]
    ELSE r

\* the suspicion timers of one record at time t
Advance(r, t) ==
    IF r.state = "ALIVE" /\ t - r.last_updated >= suspect_timeout
    THEN [r EXCEPT !.state = "SUSPECT", !.last_updated = t]
    ELSE IF r.state = "SUSPECT" /\ t - r.last_updated >= dead_timeout
    THEN [r EXCEPT !.state = "DEAD", !.last_updated = t]
    ELSE r

\* start(self_record): the own record ALIVE with incarnation 0; a second start is refused
DiscoveryService_start ==
    /\ ~running
    /\ running' = TRUE
    /\ table' = [table EXCEPT ![SelfId] = [incarnation |-> 0, state |-> "ALIVE",
                                           last_updated |-> now]]
    /\ lastMerge' = [op |-> "start", stale |-> {}, refresh |-> {},
                     was |-> StatesOf(table)]
    /\ UNCHANGED now

\* tick(): the suspicion timers advance against the clock (the sends keep no local state)
DiscoveryService_tick ==
    /\ running
    /\ table' = [id \in Ids |-> Advance(table[id], now)]
    /\ lastMerge' = [op |-> "tick", stale |-> {}, refresh |-> {},
                     was |-> StatesOf(table)]
    /\ UNCHANGED <<running, now>>

\* on_gossip_received(msg): a malformed digest is dropped, any other is merged entry by entry
DiscoveryService_on_gossip_received(digest) ==
    /\ running
    /\ LET taken == IF WellFormed(digest) THEN digest ELSE <<>>
       IN /\ table' = MergeDigest(table, taken, now)
          /\ lastMerge' = [op |-> "gossip", stale |-> StaleIds(table, taken),
                           refresh |-> RefreshIds(table, taken),
                           was |-> StatesOf(table)]
    /\ UNCHANGED <<running, now>>

\* garbage collection: a record DEAD for the retention period is removed
DiscoveryService_collect ==
    /\ running
    /\ \E id \in Ids :
          /\ table[id].state = "DEAD"
          /\ now - table[id].last_updated >= retention
          /\ table' = [table EXCEPT ![id] = NoRecord]
    /\ lastMerge' = [op |-> "collect", stale |-> {}, refresh |-> {},
                     was |-> StatesOf(table)]
    /\ UNCHANGED <<running, now>>

InitDiscovery ==
    /\ running = FALSE
    /\ now = 0
    /\ table = [id \in Ids |-> NoRecord]
    /\ lastMerge = NoMerge

\* the clock moves on; a timer may fire late, so any time may pass between two ticks
ClockAdvance ==
    /\ now < MaxTime
    /\ now' = now + 1
    /\ UNCHANGED <<running, table, lastMerge>>
    /\ UNCHANGED <<brokerVars, moduleVars>>

Start == DiscoveryService_start /\ UNCHANGED <<brokerVars, moduleVars>>

Tick == DiscoveryService_tick /\ UNCHANGED <<brokerVars, moduleVars>>

GossipReceived ==
    /\ \E digest \in Digests : DiscoveryService_on_gossip_received(digest)
    /\ UNCHANGED <<brokerVars, moduleVars>>

Collect == DiscoveryService_collect /\ UNCHANGED <<brokerVars, moduleVars>>

----------------------------------------------------------------------------
(* Specifications *)

Init == InitBroker /\ InitModule /\ InitDiscovery

\* the discovery service on its own: one broker and one module, constructed and left alone
InitDiscoveryOnly ==
    /\ Init
    /\ backendUp
    /\ name = "m1"
    /\ config = [fanout |-> 3]

\* the key-value facade of the broker
NextKV == SetCall \/ GetCall \/ BackendFail \/ BackendRecover
SpecKV == Init /\ [][NextKV]_vars

\* the publish/subscribe side of the broker
NextPubSub == PublishCall \/ SubscribeCall \/ BackendFail \/ BackendRecover
SpecPubSub == Init /\ [][NextPubSub]_vars

\* a module and the broker it publishes through
NextModule ==
    \/ AttachBroker \/ ModulePublishCall \/ SetStatusCall \/ HandleErrorCall
    \/ OnMessageCall \/ BackendFail \/ BackendRecover
SpecModule == Init /\ [][NextModule]_vars

\* the discovery service
NextDiscovery == Start \/ ClockAdvance \/ Tick \/ GossipReceived \/ Collect
SpecDiscovery == InitDiscoveryOnly /\ [][NextDiscovery]_vars

Next == NextKV \/ NextPubSub \/ NextModule \/ NextDiscovery
Spec == Init /\ [][Next]_vars

----------------------------------------------------------------------------
(* Steps, told apart by what they leave behind *)

\* a call of Broker.set, Broker.get: the connection state is not theirs to change
BrokerCallStep(op) == lastCall'.op = op /\ backendUp' = backendUp

\* a call of a ModuleBase method
ModuleCallStep(op) == modCall'.op = op /\ backendUp' = backendUp

\* a step of tick(), of on_gossip_received()
DiscoveryStep(op) == lastMerge'.op = op /\ now' = now

Present(id) == table[id] # NoRecord

----------------------------------------------------------------------------
(* Broker *)

\* C1: Broker.publish never raises to its caller: it returns False when the backend publish
\* raises and True when the backend publish succeeds.
C1_PublishNeverRaises ==
    lastCall.op = "publish" =>
        /\ ~lastCall.raised
        /\ lastCall.backend # "ok" => lastCall.ret = PyFalse
        /\ lastCall.backend = "ok" => lastCall.ret = PyTrue

\* a publish that the unreachable backend refused has returned False
C1_Witness ==
    /\ lastCall.op = "publish"
    /\ lastCall.backend = "ConnectionError"
    /\ lastCall.ret = PyFalse

\* C2, as stated: Broker.set never raises; a failed write returns False and leaves the stored
\* value unchanged; a successful write returns True and a following get(key) returns that value.
C2_SetThenGetReturnsValue ==
    [][/\ BrokerCallStep("set") =>
            /\ ~lastCall'.raised
            /\ lastCall'.backend # "ok" => lastCall'.ret = PyFalse /\ store' = store
            /\ lastCall'.backend = "ok" => lastCall'.ret = PyTrue
       /\ ( /\ lastCall.op = "set"
            /\ lastCall.ret = PyTrue
            /\ BrokerCallStep("get")
            /\ lastCall'.target = lastCall.target
            /\ lastCall'.backend = "ok" ) =>
            /\ ~lastCall'.raised
            /\ lastCall'.ret = lastCall.arg
      ]_vars

\* C2, amended: Broker.set never raises; a failed write returns False and leaves the store
\* unchanged; a successful write returns True, stores the text of the value under the key and
\* nothing else, and a following get(key) that reaches the backend returns that text as a str:
\* the value itself when it is a str, "5" when it is the int 5.
C2_SetWriteThrough ==
    [][/\ BrokerCallStep("set") =>
            /\ ~lastCall'.raised
            /\ lastCall'.backend # "ok" => lastCall'.ret = PyFalse /\ store' = store
            /\ lastCall'.backend = "ok" =>
                  /\ lastCall'.ret = PyTrue
                  /\ store' = [store EXCEPT ![lastCall'.target] = RedisEncode(lastCall'.arg)]
       /\ ( /\ lastCall.op = "set"
            /\ lastCall.ret = PyTrue
            /\ BrokerCallStep("get")
            /\ lastCall'.target = lastCall.target
            /\ lastCall'.backend = "ok" ) =>
            /\ ~lastCall'.raised
            /\ lastCall'.ret = Str(lastCall.arg)
            /\ lastCall.arg.t = "str" => lastCall'.ret = lastCall.arg
      ]_vars

\* a get has returned the str "5", which only a successful set of the int 5 can have stored
C2_Witness ==
    /\ lastCall.op = "get"
    /\ ~lastCall.raised
    /\ lastCall.ret = PyString("5")

\* C3: with the backend unreachable, after set(key, value) has returned False, a subsequent
\* get(key) returns None ("not found") and does not raise.
C3_GetAfterFailedSet ==
    [][( /\ lastCall.op = "set"
         /\ lastCall.backend = "ConnectionError"
         /\ lastCall.ret = PyFalse
         /\ ~backendUp
         /\ BrokerCallStep("get")
         /\ lastCall'.target = lastCall.target ) =>
         /\ ~lastCall'.raised
         /\ lastCall'.ret = PyNone
      ]_vars

\* C4: a handler subscribed to a topic before a publish on it is invoked exactly once per
\* message the backend accepted: never zero times and never more than once.
C4_HandlerInvokedOncePerMessage ==
    \A topic \in Topics : handlerCalls[topic] = due[topic]

\* C9: each call of Broker.publish makes exactly one publish attempt on the backend, for its
\* topic and payload only, whether it succeeds or fails; the backend never accepts a message
\* more often than publish was called for it.
C9_OneAttemptPerCall ==
    \A topic \in Topics, message \in Messages :
        /\ attempts[<<topic, Str(message)>>] = pubCalls[<<topic, message>>]
        /\ accepted[<<topic, Str(message)>>] <= pubCalls[<<topic, message>>]

\* a message published twice on one topic, refused once by the backend and not tried again
C9_Witness ==
    \E topic \in Topics, message \in Messages :
        /\ pubCalls[<<topic, message>>] = 2
        /\ attempts[<<topic, Str(message)>>] = 2
        /\ accepted[<<topic, Str(message)>>] = 1

----------------------------------------------------------------------------
(* ModuleBase *)

Lifecycle == {"INITIALIZING", "OPERATIONAL", "DEGRADED"}

LifecycleRank(s) ==
    CASE s = "INITIALIZING" -> 0 [] s = "OPERATIONAL" -> 1 [] s = "DEGRADED" -> 2 [] OTHER -> 3

\* C5: the status is always INITIALIZING, OPERATIONAL or DEGRADED, DEGRADED is entered only
\* through handle_error, and no operation moves the status backwards.
C5_StatusLifecycle ==
    [][/\ status' \in Lifecycle
       /\ (status' = "DEGRADED" /\ status # "DEGRADED") => ModuleCallStep("handle_error")
       /\ LifecycleRank(status') >= LifecycleRank(status)
      ]_vars

\* C6: handle_error, in any status and any number of times, leaves the status DEGRADED, does
\* not raise, leaves name, config and broker handle unchanged, and the module still accepts
\* publish and on_message.
C6_HandleErrorDegrades ==
    /\ [][ModuleCallStep("handle_error") =>
             /\ status' = "DEGRADED"
             /\ ~modCall'.raised
             /\ name' = name /\ config' = config /\ broker' = broker
          ]_vars
    /\ [](status = "DEGRADED" =>
             /\ ENABLED OnMessageCall
             /\ Total(pubCalls) < MaxPublishCalls => ENABLED ModulePublishCall)

\* handle_error has been called on a module that holds a broker
C6_Witness ==
    /\ modCall.op = "handle_error"
    /\ status = "DEGRADED"
    /\ broker = "Broker"

\* C10: ModuleBase.publish without a broker makes no backend publish and does not raise; with
\* or without a broker, whatever the broker returns, it leaves status, name and config unchanged.
C10_PublishFrame ==
    [][ModuleCallStep("publish") =>
          /\ ~modCall'.raised
          /\ status' = status /\ name' = name /\ config' = config /\ broker' = broker
          /\ broker = "None" =>
                /\ ~modCall'.brokerCalled
                /\ pubCalls' = pubCalls /\ attempts' = attempts /\ accepted' = accepted
      ]_vars

\* an OPERATIONAL module has published through its broker and the broker returned False
C10_Witness ==
    /\ modCall.op = "publish"
    /\ modCall.brokerCalled
    /\ lastCall.op = "publish"
    /\ lastCall.ret = PyFalse
    /\ status = "OPERATIONAL"

----------------------------------------------------------------------------
(* DiscoveryService *)

\* C7: no merge replaces a stored record by a digest entry of a lower incarnation, and over
\* merges and ticks the stored incarnation of an id never decreases.
C7_IncarnationMonotone ==
    [][\A id \in Ids :
          /\ (Present(id) /\ table'[id] # NoRecord) =>
                table'[id].incarnation >= table[id].incarnation
          /\ (DiscoveryStep("gossip") /\ id \in lastMerge'.stale) => table'[id] = table[id]
      ]_vars

\* a digest that was stale about a record of incarnation 1 has been merged
C7_Witness ==
    /\ lastMerge.op = "gossip"
    /\ \E id \in lastMerge.stale : table[id].incarnation = 1

\* the timing part of C8: what tick() does to a record, and what a refresh does
SuspicionTiming(id) ==
    /\ (DiscoveryStep("tick") /\ table[id].state = "ALIVE") =>
          IF now - table[id].last_updated >= suspect_timeout
          THEN table'[id].state = "SUSPECT" /\ table'[id].last_updated = now
          ELSE table'[id] = table[id]
    /\ (DiscoveryStep("tick") /\ table[id].state = "SUSPECT") =>
          IF now - table[id].last_updated >= dead_timeout
          THEN table'[id].state = "DEAD"
          ELSE table'[id] = table[id]
    /\ ( /\ DiscoveryStep("gossip")
         /\ id \in lastMerge'.refresh
         /\ table[id].state \in {"ALIVE", "SUSPECT"} ) =>
          table'[id].state = "ALIVE" /\ table'[id].last_updated = now

\* C8, as stated: an ALIVE record not refreshed for suspect_timeout becomes SUSPECT on tick(),
\* a SUSPECT record not refreshed for dead_timeout since it became SUSPECT becomes DEAD, a
\* refresh before DEAD returns the record to ALIVE, and a record never goes from ALIVE to DEAD
\* without passing through SUSPECT.
C8_SuspicionNeverSkipsSuspect ==
    [][\A id \in Ids :
          /\ SuspicionTiming(id)
          /\ table[id].state = "ALIVE" => table'[id].state # "DEAD"
      ]_vars

\* C8, amended: the same timing, and tick() never takes a record from ALIVE to DEAD; only a
\* merged digest entry that carries DEAD for the id does.
C8_SuspicionTiming ==
    [][\A id \in Ids :
          /\ SuspicionTiming(id)
          /\ (DiscoveryStep("tick") /\ table[id].state = "ALIVE") => table'[id].state # "DEAD"
          /\ (table[id].state = "ALIVE" /\ table'[id].state = "DEAD") => DiscoveryStep("gossip")
      ]_vars

\* a tick has declared DEAD a record that was SUSPECT, both timeouts having passed
C8_Witness ==
    /\ lastMerge.op = "tick"
    /\ now >= suspect_timeout + dead_timeout
    /\ \E id \in Ids :
          /\ lastMerge.was[id] = "SUSPECT"
          /\ table[id].state = "DEAD"
          /\ table[id].last_updated = now

====
